---- MODULE Spec2Model ----
(***************************************************************************)
(* A model of the design-pattern demonstrations:                          *)
(*   creational/Singleton.py  - lazily initialised, lock-guarded accessor  *)
(*   behavioral/observer.py   - Subject / ConcreteObserver notification    *)
(*   creational/factory.py    - Creator / Product factory method           *)
(*   behavioral/strategy.py   - Context / Strategy delegation              *)
(***************************************************************************)
EXTENDS Integers, Sequences, FiniteSets, TLC

\* ------------------------------------------------------------------ bounds
NThreads == 3
MaxCalls == 2
NSubjects == 2
NObservers == 2
NValues == 2
MaxOps == 5
MaxSteppedOps == 4
MaxCreators == 2
MaxStrategies == 2
MaxContexts == 2

\* None of Python: the initial value of every reference and state field.
None == 0

Threads == 1..NThreads
Subjects == 1..NSubjects
Observers == 1..NObservers
\* the values a state may be set to ('hello', 'hello1', 'hello2', ...)
Values == 1..NValues

VARIABLES
    app_instance,      \* Singleton.__app_instance: None or the identity of an instance
    singleton_lock,    \* Singleton.__singleton_lock: None (free) or the holding thread
    constructed,       \* number of times Singleton.__init__ has run
    pc,                \* pc[t]: the statement of get_cls_instance thread t is at
    fresh,             \* fresh[t]: the value of Singleton() on line 43 before it is stored
    results,           \* results[t]: the values get_cls_instance returned to thread t
    subject_state,     \* subject_state[s]: Subject._subject_state
    observers,         \* observers[s]: Subject._observers, a set of observers
    observer_state,    \* observer_state[o]: Observer._observer_state
    observer_subject,  \* observer_subject[o]: Observer._subject, None or a subject
    update_calls,      \* update_calls[o]: calls of o.update made by the latest call
    calls,             \* number of calls the client has made on subjects and observers
    last,              \* the latest call of the client on a subject or an observer
    broadcast,         \* the assignment of a subject's state that is in progress, if any
    creators,          \* the Creator objects made so far: class, product, values returned
    strategies,        \* the Strategy objects made so far: the class of each
    contexts           \* the Context objects made so far: strategy, values returned

singleton_vars == <<app_instance, singleton_lock, constructed, pc, fresh, results>>

observer_vars == <<subject_state, observers, observer_state, observer_subject,
                   update_calls, calls, last, broadcast>>

factory_vars == <<creators>>

strategy_vars == <<strategies, contexts>>

vars == <<app_instance, singleton_lock, constructed, pc, fresh, results,
          subject_state, observers, observer_state, observer_subject,
          update_calls, calls, last, broadcast, creators, strategies, contexts>>

\* ------------------------------------------------- creational/Singleton.py

InitSingleton ==
    /\ app_instance = None
    /\ singleton_lock = None
    /\ constructed = 0
    /\ pc = [t \in Threads |-> "idle"]
    /\ fresh = [t \in Threads |-> None]
    /\ results = [t \in Threads |-> <<>>]

\* A caller enters get_cls_instance (s1 = Singleton.get_cls_instance()).
Call(t) ==
    /\ pc[t] = "idle"
    /\ Len(results[t]) < MaxCalls
    /\ pc' = [pc EXCEPT ![t] = "check1"]
    /\ UNCHANGED <<app_instance, singleton_lock, constructed, fresh, results>>
    /\ UNCHANGED <<observer_vars, factory_vars, strategy_vars>>

\* No fast path: the caller goes for the lock whatever the first check saw.
FirstCheckAlwaysLocks(t) ==
    /\ pc[t] = "check1"
    /\ pc' = [pc EXCEPT ![t] = "acquire"]
    /\ UNCHANGED <<app_instance, singleton_lock, constructed, fresh, results>>
    /\ UNCHANGED <<observer_vars, factory_vars, strategy_vars>>

\* line 40: if not cls.__app_instance  (read without the lock)
FirstCheck(t) ==
    /\ pc[t] = "check1"
    /\ pc' = [pc EXCEPT ![t] = IF app_instance = None THEN "acquire" ELSE "return"]
    /\ UNCHANGED <<app_instance, singleton_lock, constructed, fresh, results>>
    /\ UNCHANGED <<observer_vars, factory_vars, strategy_vars>>

\* A lock that never blocks: acquire() succeeds although another thread holds it.
AcquireNoExclusion(t) ==
    /\ pc[t] = "acquire"
    /\ singleton_lock' = t
    /\ pc' = [pc EXCEPT ![t] = "check2"]
    /\ UNCHANGED <<app_instance, constructed, fresh, results>>
    /\ UNCHANGED <<observer_vars, factory_vars, strategy_vars>>

\* line 41: cls.__singleton_lock.acquire()  (blocks while the lock is held)
Acquire(t) ==
    /\ pc[t] = "acquire"
    /\ singleton_lock = None
    /\ singleton_lock' = t
    /\ pc' = [pc EXCEPT ![t] = "check2"]
    /\ UNCHANGED <<app_instance, constructed, fresh, results>>
    /\ UNCHANGED <<observer_vars, factory_vars, strategy_vars>>

\* Single-checked locking: the instance is not looked at again under the lock.
SecondCheckNoRecheck(t) ==
    /\ pc[t] = "check2"
    /\ pc' = [pc EXCEPT ![t] = "construct"]
    /\ UNCHANGED <<app_instance, singleton_lock, constructed, fresh, results>>
    /\ UNCHANGED <<observer_vars, factory_vars, strategy_vars>>

\* line 42: if not cls.__app_instance  (read under the lock)
SecondCheck(t) ==
    /\ pc[t] = "check2"
    /\ pc' = [pc EXCEPT ![t] = IF app_instance = None THEN "construct" ELSE "release"]
    /\ UNCHANGED <<app_instance, singleton_lock, constructed, fresh, results>>
    /\ UNCHANGED <<observer_vars, factory_vars, strategy_vars>>

\* The new object is handed on before its __init__ has run (and it never runs).
ConstructAllocatesOnly(t) ==
    /\ pc[t] = "construct"
    /\ fresh' = [fresh EXCEPT ![t] = constructed + 1]
    /\ pc' = [pc EXCEPT ![t] = "assign"]
    /\ UNCHANGED <<app_instance, singleton_lock, constructed, results>>
    /\ UNCHANGED <<observer_vars, factory_vars, strategy_vars>>

\* line 43, right-hand side: Singleton() runs __init__ and yields a new object
Construct(t) ==
    /\ pc[t] = "construct"
    /\ constructed' = constructed + 1
    /\ fresh' = [fresh EXCEPT ![t] = constructed + 1]
    /\ pc' = [pc EXCEPT ![t] = "assign"]
    /\ UNCHANGED <<app_instance, singleton_lock, results>>
    /\ UNCHANGED <<observer_vars, factory_vars, strategy_vars>>

\* line 43, store: cls.__app_instance = <the new object>
Assign(t) ==
    /\ pc[t] = "assign"
    /\ app_instance' = fresh[t]
    /\ fresh' = [fresh EXCEPT ![t] = None]
    /\ pc' = [pc EXCEPT ![t] = "release"]
    /\ UNCHANGED <<singleton_lock, constructed, results>>
    /\ UNCHANGED <<observer_vars, factory_vars, strategy_vars>>

\* A path that leaves the critical section without releasing the lock.
ReleaseKeepsLock(t) ==
    /\ pc[t] = "release"
    /\ pc' = [pc EXCEPT ![t] = "return"]
    /\ UNCHANGED <<app_instance, singleton_lock, constructed, fresh, results>>
    /\ UNCHANGED <<observer_vars, factory_vars, strategy_vars>>

\* line 44: cls.__singleton_lock.release()
Release(t) ==
    /\ pc[t] = "release"
    /\ singleton_lock' = None
    /\ pc' = [pc EXCEPT ![t] = "return"]
    /\ UNCHANGED <<app_instance, constructed, fresh, results>>
    /\ UNCHANGED <<observer_vars, factory_vars, strategy_vars>>

\* line 46: return cls.__app_instance
Return(t) ==
    /\ pc[t] = "return"
    /\ results' = [results EXCEPT ![t] = Append(@, app_instance)]
    /\ pc' = [pc EXCEPT ![t] = "idle"]
    /\ UNCHANGED <<app_instance, singleton_lock, constructed, fresh>>
    /\ UNCHANGED <<observer_vars, factory_vars, strategy_vars>>

get_cls_instance(t) ==
    \/ Call(t)
    \/ FirstCheck(t)
    \/ Acquire(t)
    \/ SecondCheck(t)
    \/ Construct(t)
    \/ Assign(t)
    \/ Release(t)
    \/ Return(t)

NextSingleton == \E t \in Threads : get_cls_instance(t)

\* A step of thread t inside get_cls_instance: everything but the decision to call.
Running(t) ==
    \/ FirstCheck(t)
    \/ Acquire(t)
    \/ SecondCheck(t)
    \/ Construct(t)
    \/ Assign(t)
    \/ Release(t)
    \/ Return(t)

\* Fair scheduling: a thread that can take a step inside the call eventually does.
FairThreads == \A t \in Threads : WF_vars(Running(t))

\* -------------------------------------------------- behavioral/observer.py

NoCalls == [o \in Observers |-> 0]

\* The record kept of the latest call: which operation, on which subject and
\* observer, with which argument, whether it raised, and (for register and
\* de_register) whether the observer was in the registry before the call.
Called(op, s, o, arg, error, was_member) ==
    [op |-> op, subject |-> s, observer |-> o, arg |-> arg,
     error |-> error, was_member |-> was_member]

\* No assignment is in progress.
NoBroadcast ==
    [status |-> "idle", op |-> "none", subject |-> None, observer |-> None,
     arg |-> None, pending |-> <<>>, done |-> {}, failed |-> None,
     before |-> [o \in Observers |-> None]]

InitObserver ==
    /\ broadcast = NoBroadcast
    /\ subject_state = [s \in Subjects |-> None]
    /\ observers = [s \in Subjects |-> {}]
    /\ observer_state = [o \in Observers |-> None]
    /\ observer_subject = [o \in Observers |-> None]
    /\ update_calls = NoCalls
    /\ calls = 0
    /\ last = Called("none", None, None, None, FALSE, FALSE)

\* The orders in which a for loop may visit the members of a set.
Orders(set) ==
    {order \in [1..Cardinality(set) -> set] :
        \A i, j \in 1..Cardinality(set) : order[i] = order[j] => i = j}

\* ConcreteObserver.update: self._observer_state = arg  (one call is counted)
update(acc, o, arg) ==
    [observer_state |-> [acc.observer_state EXCEPT ![o] = arg],
     update_calls |-> [acc.update_calls EXCEPT ![o] = @ + 1]]

\* A broadcast that stops after the first observer.
notify_first_only(order, arg, acc) ==
    IF order = <<>> THEN acc ELSE update(acc, Head(order), arg)

\* Subject._notify: for observer in self._observers: observer.update(arg)
RECURSIVE notify(_, _, _)
notify(order, arg, acc) ==
    IF order = <<>> THEN acc
    ELSE notify(Tail(order), arg, update(acc, Head(order), arg))

\* The subject_state setter: self._subject_state = arg; self._notify(arg)
set_subject_state(s, arg) ==
    /\ subject_state' = [subject_state EXCEPT ![s] = arg]
    /\ \E order \in Orders(observers[s]) :
          LET done == notify(order, arg,
                             [observer_state |-> observer_state, update_calls |-> NoCalls])
          IN  /\ observer_state' = done.observer_state
              /\ update_calls' = done.update_calls

\* One more call by the client; the singleton is not touched.
ClientCall ==
    /\ calls < MaxOps
    /\ calls' = calls + 1
    /\ UNCHANGED <<singleton_vars, factory_vars, strategy_vars, broadcast>>

\* A register that returns early when the observer is already in the registry.
register_skips_member(s, o) ==
    /\ observers' = [observers EXCEPT ![s] = @ \cup {o}]
    /\ observer_subject' = IF o \in observers[s] THEN observer_subject
                           ELSE [observer_subject EXCEPT ![o] = s]
    /\ update_calls' = NoCalls
    /\ last' = Called("register", s, o, None, FALSE, o \in observers[s])
    /\ UNCHANGED <<subject_state, observer_state>>

\* One more call by the client begins; it ends in a later step.
ClientCallBegins ==
    /\ calls < MaxSteppedOps
    /\ calls' = calls + 1
    /\ UNCHANGED <<singleton_vars, factory_vars, strategy_vars>>

\* Subject.register
register(s, o) ==
    /\ observers' = [observers EXCEPT ![s] = @ \cup {o}]
    /\ observer_subject' = [observer_subject EXCEPT ![o] = s]
    /\ update_calls' = NoCalls
    /\ last' = Called("register", s, o, None, FALSE, o \in observers[s])
    /\ UNCHANGED <<subject_state, observer_state>>

\* A de_register that clears the back-reference but leaves the registry alone.
de_register_keeps_member(s, o) ==
    /\ observers' = observers
    /\ observer_subject' = [observer_subject EXCEPT ![o] = None]
    /\ update_calls' = NoCalls
    /\ last' = Called("de_register", s, o, None, FALSE, o \in observers[s])
    /\ UNCHANGED <<subject_state, observer_state>>

\* A de_register written with set.remove, which raises KeyError for a non-member.
de_register_remove(s, o) ==
    IF o \in observers[s]
    THEN /\ observers' = [observers EXCEPT ![s] = @ \ {o}]
         /\ observer_subject' = [observer_subject EXCEPT ![o] = None]
         /\ update_calls' = NoCalls
         /\ last' = Called("de_register", s, o, None, FALSE, TRUE)
         /\ UNCHANGED <<subject_state, observer_state>>
    ELSE /\ update_calls' = NoCalls
         /\ last' = Called("de_register", s, o, None, TRUE, FALSE)
         /\ UNCHANGED <<subject_state, observers, observer_state, observer_subject>>

\* Subject.de_register
de_register(s, o) ==
    /\ observers' = [observers EXCEPT ![s] = @ \ {o}]
    /\ observer_subject' = [observer_subject EXCEPT ![o] = None]
    /\ update_calls' = NoCalls
    /\ last' = Called("de_register", s, o, None, FALSE, o \in observers[s])
    /\ UNCHANGED <<subject_state, observer_state>>

\* subject.subject_state = arg, assigned by the client
assign_subject_state(s, arg) ==
    /\ set_subject_state(s, arg)
    /\ last' = Called("subject_state", s, None, arg, FALSE, FALSE)
    /\ UNCHANGED <<observers, observer_subject>>

\* A push that writes the field _subject_state, bypassing the property setter.
push_bypasses_setter(o, arg) ==
    IF observer_subject[o] = None
    THEN /\ last' = Called("push", None, o, arg, TRUE, FALSE)
         /\ update_calls' = NoCalls
         /\ UNCHANGED <<subject_state, observers, observer_state, observer_subject>>
    ELSE /\ subject_state' = [subject_state EXCEPT ![observer_subject[o]] = arg]
         /\ update_calls' = NoCalls
         /\ last' = Called("push", observer_subject[o], o, arg, FALSE, FALSE)
         /\ UNCHANGED <<observers, observer_state, observer_subject>>

\* A push that records the value in the pushing observer before it looks at _subject.
push_records_first(o, arg) ==
    IF observer_subject[o] = None
    THEN /\ last' = Called("push", None, o, arg, TRUE, FALSE)
         /\ update_calls' = NoCalls
         /\ observer_state' = [observer_state EXCEPT ![o] = arg]
         /\ UNCHANGED <<subject_state, observers, observer_subject>>
    ELSE /\ set_subject_state(observer_subject[o], arg)
         /\ last' = Called("push", observer_subject[o], o, arg, FALSE, FALSE)
         /\ UNCHANGED <<observers, observer_subject>>

\* A push that goes to the first subject that lists the observer, not to _subject.
push_first_membership(o, arg) ==
    IF observer_subject[o] = None
    THEN /\ last' = Called("push", None, o, arg, TRUE, FALSE)
         /\ update_calls' = NoCalls
         /\ UNCHANGED <<subject_state, observers, observer_state, observer_subject>>
    ELSE LET listing == {s \in Subjects : o \in observers[s]}
             first == CHOOSE s \in listing : \A s2 \in listing : s <= s2
         IN  /\ set_subject_state(first, arg)
             /\ last' = Called("push", first, o, arg, FALSE, FALSE)
             /\ UNCHANGED <<observers, observer_subject>>

\* ConcreteObserver.push: self._subject.subject_state = arg.  With _subject
\* None the attribute assignment raises AttributeError before anything is set.
push(o, arg) ==
    IF observer_subject[o] = None
    THEN /\ last' = Called("push", None, o, arg, TRUE, FALSE)
         /\ update_calls' = NoCalls
         /\ UNCHANGED <<subject_state, observers, observer_state, observer_subject>>
    ELSE /\ set_subject_state(observer_subject[o], arg)
         /\ last' = Called("push", observer_subject[o], o, arg, FALSE, FALSE)
         /\ UNCHANGED <<observers, observer_subject>>

\* The client: the module-level statements, any call in any order.
Register == \E s \in Subjects, o \in Observers : ClientCall /\ register(s, o)

DeRegister == \E s \in Subjects, o \in Observers : ClientCall /\ de_register(s, o)

AssignSubjectState ==
    \E s \in Subjects, arg \in Values : ClientCall /\ assign_subject_state(s, arg)

Push == \E o \in Observers, arg \in Values : ClientCall /\ push(o, arg)

NextObserver == Register \/ DeRegister \/ AssignSubjectState \/ Push

\* ---------------------- behavioral/observer.py, one statement at a time
\* The setter and _notify taken statement by statement, with an update that
\* may raise: Observer.update is abstract and _notify has no handler.

\* A setter that notifies first and has not stored the state when update runs.
store_state_late(op, s, o, arg) ==
    /\ \E order \in Orders(observers[s]) :
          broadcast' = [status |-> "notifying", op |-> op, subject |-> s,
                        observer |-> o, arg |-> arg, pending |-> order,
                        done |-> {}, failed |-> None, before |-> observer_state]
    /\ update_calls' = NoCalls
    /\ UNCHANGED <<subject_state, observers, observer_state, observer_subject, last>>

\* line 77: self._subject_state = arg, then line 78 enters _notify, whose loop
\* will visit the registry in some order.
store_state(op, s, o, arg) ==
    /\ subject_state' = [subject_state EXCEPT ![s] = arg]
    /\ \E order \in Orders(observers[s]) :
          broadcast' = [status |-> "notifying", op |-> op, subject |-> s,
                        observer |-> o, arg |-> arg, pending |-> order,
                        done |-> {}, failed |-> None, before |-> observer_state]
    /\ update_calls' = NoCalls
    /\ UNCHANGED <<observers, observer_state, observer_subject, last>>

\* subject.subject_state = arg: the client's assignment begins
BeginAssign ==
    \E s \in Subjects, arg \in Values :
        /\ broadcast.status = "idle"
        /\ ClientCallBegins
        /\ store_state("subject_state", s, None, arg)

\* observer.push(arg), line 102: raises at once with _subject None, else the
\* assignment to the subject's state begins
BeginPush ==
    \E o \in Observers, arg \in Values :
        /\ broadcast.status = "idle"
        /\ ClientCallBegins
        /\ IF observer_subject[o] = None
           THEN /\ last' = Called("push", None, o, arg, TRUE, FALSE)
                /\ update_calls' = NoCalls
                /\ UNCHANGED <<subject_state, observers, observer_state,
                               observer_subject, broadcast>>
           ELSE store_state("push", observer_subject[o], o, arg)

\* line 61: observer.update(arg) for the next observer of the loop returns
UpdateReturns ==
    /\ broadcast.status = "notifying"
    /\ broadcast.pending # <<>>
    /\ LET o == Head(broadcast.pending)
           done == update([observer_state |-> observer_state,
                           update_calls |-> update_calls], o, broadcast.arg)
       IN  /\ observer_state' = done.observer_state
           /\ update_calls' = done.update_calls
           /\ broadcast' = [broadcast EXCEPT !.pending = Tail(@), !.done = @ \cup {o}]
    /\ UNCHANGED <<subject_state, observers, observer_subject, calls, last>>
    /\ UNCHANGED <<singleton_vars, factory_vars, strategy_vars>>

\* A _notify that catches the exception of an update and goes on with the loop.
UpdateRaisesSwallowed ==
    /\ broadcast.status = "notifying"
    /\ broadcast.pending # <<>>
    /\ LET o == Head(broadcast.pending)
       IN  /\ observer_state' = observer_state
           /\ update_calls' = [update_calls EXCEPT ![o] = @ + 1]
           /\ broadcast' = [broadcast EXCEPT !.failed = o, !.pending = Tail(@)]
    /\ UNCHANGED <<subject_state, observers, observer_subject, calls, last>>
    /\ UNCHANGED <<singleton_vars, factory_vars, strategy_vars>>

\* line 61: observer.update(arg) of an Observer subclass raises, before or
\* after it stored the value; nothing catches it, so the loop is left
UpdateRaises ==
    /\ broadcast.status = "notifying"
    /\ broadcast.pending # <<>>
    /\ LET o == Head(broadcast.pending)
       IN  /\ \E stored \in BOOLEAN :
                 observer_state' = IF stored
                                   THEN [observer_state EXCEPT ![o] = broadcast.arg]
                                   ELSE observer_state
           /\ update_calls' = [update_calls EXCEPT ![o] = @ + 1]
           /\ broadcast' = [broadcast EXCEPT !.status = "raised", !.failed = o,
                                             !.pending = Tail(@)]
    /\ UNCHANGED <<subject_state, observers, observer_subject, calls, last>>
    /\ UNCHANGED <<singleton_vars, factory_vars, strategy_vars>>

\* the loop of _notify is exhausted: _notify, the setter (and push) return
AssignReturns ==
    /\ broadcast.status = "notifying"
    /\ broadcast.pending = <<>>
    /\ last' = Called(broadcast.op, broadcast.subject, broadcast.observer,
                      broadcast.arg, FALSE, FALSE)
    /\ broadcast' = NoBroadcast
    /\ UNCHANGED <<subject_state, observers, observer_state, observer_subject,
                   update_calls, calls>>
    /\ UNCHANGED <<singleton_vars, factory_vars, strategy_vars>>

\* the exception leaves _notify, the setter (and push) and reaches the client
AssignRaises ==
    /\ broadcast.status = "raised"
    /\ last' = Called(broadcast.op, broadcast.subject, broadcast.observer,
                      broadcast.arg, TRUE, FALSE)
    /\ broadcast' = NoBroadcast
    /\ UNCHANGED <<subject_state, observers, observer_state, observer_subject,
                   update_calls, calls>>
    /\ UNCHANGED <<singleton_vars, factory_vars, strategy_vars>>

\* register and de_register are called between assignments only: the client
\* is one thread and no update calls back into the subject.
RegisterIdle == broadcast.status = "idle" /\ calls < MaxSteppedOps /\ Register

DeRegisterIdle == broadcast.status = "idle" /\ calls < MaxSteppedOps /\ DeRegister

NextBroadcast ==
    \/ RegisterIdle
    \/ DeRegisterIdle
    \/ BeginAssign
    \/ BeginPush
    \/ UpdateReturns
    \/ UpdateRaises
    \/ AssignReturns
    \/ AssignRaises

\* --------------------------------------------------- creational/factory.py

InitFactory == creators = <<>>

\* A factory method that was copied from ConcreteCreatorA and not changed.
factory_method_always_a(cls) == "ConcreteProductA"

\* ConcreteCreatorA._factory_method, ConcreteCreatorB._factory_method:
\* the product each creator class instantiates.
factory_method(cls) ==
    IF cls = "ConcreteCreatorA" THEN "ConcreteProductA" ELSE "ConcreteProductB"

\* ConcreteProductA.interface, ConcreteProductB.interface
interface(product) ==
    IF product = "ConcreteProductA" THEN "Concrete Product A" ELSE "Concrete Product B"

\* Product.common_function, inherited by both products
common_function(product) == "Product: common function"

\* Creator.__init__: self.product = self._factory_method()
NewCreator(cls) ==
    /\ Len(creators) < MaxCreators
    /\ creators' = Append(creators,
                          [cls |-> cls, product |-> factory_method(cls),
                           returned |-> <<>>, common |-> <<>>])
    /\ UNCHANGED <<singleton_vars, observer_vars, strategy_vars>>

\* Creator.client_uses_this_api_to_call_product_function: self.product.interface()
client_uses_this_api_to_call_product_function(c) ==
    /\ Len(creators[c].returned) < MaxCalls
    /\ creators' = [creators EXCEPT ![c].returned =
                        Append(@, interface(creators[c].product))]
    /\ UNCHANGED <<singleton_vars, observer_vars, strategy_vars>>

\* concrete_creator.product.common_function()
CallCommonFunction(c) ==
    /\ Len(creators[c].common) < MaxCalls
    /\ creators' = [creators EXCEPT ![c].common =
                        Append(@, common_function(creators[c].product))]
    /\ UNCHANGED <<singleton_vars, observer_vars, strategy_vars>>

CreateCreator == \E cls \in {"ConcreteCreatorA", "ConcreteCreatorB"} : NewCreator(cls)

CallProductFunction ==
    \E c \in 1..Len(creators) : client_uses_this_api_to_call_product_function(c)

CallProductCommon == \E c \in 1..Len(creators) : CallCommonFunction(c)

NextFactory == CreateCreator \/ CallProductFunction \/ CallProductCommon

\* -------------------------------------------------- behavioral/strategy.py

InitStrategy ==
    /\ strategies = <<>>
    /\ contexts = <<>>

\* ConcreteStrategyA.algorithm_interface, ConcreteStrategyB.algorithm_interface
algorithm_interface(cls) ==
    IF cls = "ConcreteStrategyA" THEN "Algorithm A is implemented"
    ELSE "Algorithm B is implemented"

\* concreate_strategy_a = ConcreteStrategyA(): a strategy object of either class
NewStrategy(cls) ==
    /\ Len(strategies) < MaxStrategies
    /\ strategies' = Append(strategies, cls)
    /\ UNCHANGED <<singleton_vars, observer_vars, factory_vars, contexts>>

\* Context.__init__: self._strategy = strategy
NewContext(strategy) ==
    /\ Len(contexts) < MaxContexts
    /\ contexts' = Append(contexts, [strategy |-> strategy, returned |-> <<>>])
    /\ UNCHANGED <<singleton_vars, observer_vars, factory_vars, strategies>>

\* A Context that calls the first strategy made, not the one it was given.
client_interface_first_strategy(x) ==
    /\ Len(contexts[x].returned) < MaxCalls
    /\ contexts' = [contexts EXCEPT ![x].returned =
                        Append(@, algorithm_interface(strategies[1]))]
    /\ UNCHANGED <<singleton_vars, observer_vars, factory_vars, strategies>>

\* Context.client_interface_to_call_algo: self._strategy.algorithm_interface()
client_interface_to_call_algo(x) ==
    /\ Len(contexts[x].returned) < MaxCalls
    /\ contexts' = [contexts EXCEPT ![x].returned =
                        Append(@, algorithm_interface(strategies[contexts[x].strategy]))]
    /\ UNCHANGED <<singleton_vars, observer_vars, factory_vars, strategies>>

CreateStrategy == \E cls \in {"ConcreteStrategyA", "ConcreteStrategyB"} : NewStrategy(cls)

CreateContext == \E strategy \in 1..Len(strategies) : NewContext(strategy)

CallAlgo == \E x \in 1..Len(contexts) : client_interface_to_call_algo(x)

NextStrategy == CreateStrategy \/ CreateContext \/ CallAlgo

Init == InitSingleton /\ InitObserver /\ InitFactory /\ InitStrategy

Next == NextSingleton \/ NextObserver \/ NextFactory \/ NextStrategy

Spec == Init /\ [][Next]_vars

SpecSingleton == Init /\ [][NextSingleton]_vars

SpecSingletonFair == Init /\ [][NextSingleton]_vars /\ FairThreads

SpecObserver == Init /\ [][NextObserver]_vars

SpecBroadcast == Init /\ [][NextBroadcast]_vars

SpecFactory == Init /\ [][NextFactory]_vars

SpecStrategy == Init /\ [][NextStrategy]_vars

\* ------------------------------------------------------------ properties

\* C1: whatever the interleaving of the threads' steps, the Singleton
\* constructor runs at most once, and exactly once as soon as any call of
\* get_cls_instance has returned.
C1_ConstructedExactlyOnce ==
    /\ constructed <= 1
    /\ (\E t \in Threads : Len(results[t]) > 0) => constructed = 1

\* C1 witness: a thread that saw None on the unlocked check holds the lock and
\* is about to re-check, while another thread has already built the instance.
C1_Witness ==
    /\ constructed = 1
    /\ app_instance # None
    /\ \E t \in Threads : pc[t] = "check2"

\* C2: every call of get_cls_instance returns an instance, never None, and any
\* two calls, of the same thread or of different threads, return the same one.
C2_SameInstanceReturned ==
    \A t, u \in Threads :
        \A i \in 1..Len(results[t]), j \in 1..Len(results[u]) :
            /\ results[t][i] # None
            /\ results[t][i] = results[u][j]

\* C2 witness: every thread has made all its calls and each has returned.
C2_Witness ==
    \A t \in Threads : Len(results[t]) = MaxCalls /\ pc[t] = "idle"

\* C3: once the stored instance is not None no step changes it, so there is
\* no way back from Initialized to Uninitialized.
C3_InstanceNeverChanges ==
    [][app_instance # None => app_instance' = app_instance]_vars

\* C3 witness: the instance is stored while a thread that saw None on the
\* unlocked check is still on its way to the lock.
C3_Witness ==
    /\ app_instance # None
    /\ \E t \in Threads : pc[t] = "acquire"

\* The subject an assignment of the latest call went to, None when the latest
\* call assigned no subject state.
AssignedSubject(call) ==
    IF call.op = "subject_state" THEN call.subject
    ELSE IF call.op = "push" /\ ~call.error THEN call.subject
    ELSE None

\* C4: when the assignment subject_state = v has returned, the subject's state
\* is v and every observer in the subject's registry holds v; so an observer
\* that stays registered through v1, ..., vn ends with vn.
C4_BroadcastDeliversValue ==
    last.op = "subject_state" =>
        /\ subject_state[last.subject] = last.arg
        /\ \A o \in observers[last.subject] : observer_state[o] = last.arg

\* C4 witness: a second, different value has been assigned to a subject: its
\* registered observers hold the new value, while an observer removed in
\* between still holds the first one, which it can only have got from this
\* subject as no other subject was ever assigned.
C4_Witness ==
    /\ last.op = "subject_state"
    /\ Cardinality(observers[last.subject]) >= 1
    /\ \A o \in Observers : observer_state[o] \in Values
    /\ \E o \in Observers : observer_state[o] # last.arg
    /\ \A s \in Subjects \ {last.subject} : subject_state[s] = None

\* C5: when push(x) of an observer A bound to subject H (A._subject is H) has
\* returned, H's state is x, every observer in H's registry holds x, and A is
\* one of them.
C5_PushRoundTrip ==
    (last.op = "push" /\ observer_subject[last.observer] # None) =>
        LET H == observer_subject[last.observer]
        IN  /\ subject_state[H] = last.arg
            /\ \A o \in observers[H] : observer_state[o] = last.arg
            /\ last.observer \in observers[H]
            /\ observer_state[last.observer] = last.arg

\* C5 witness: a push went through a subject that has another observer
\* registered besides the pushing one.
C5_Witness ==
    /\ last.op = "push"
    /\ ~last.error
    /\ \E o \in observers[last.subject] : o # last.observer

\* C6: de_register(d) on H clears d's _subject and takes d out of H's
\* registry; d comes back into it only by H.register(d); and an assignment to
\* H's state while d is out of the registry makes no call of d.update, leaves
\* d's _observer_state as it was and gives the value to the registered ones.
C6_DeregisteredNotNotified ==
    [][ /\ last'.op = "de_register" =>
             /\ last'.observer \notin observers'[last'.subject]
             /\ observer_subject'[last'.observer] = None
        /\ \A s \in Subjects, d \in Observers :
             (d \notin observers[s] /\ d \in observers'[s]) =>
                 (last'.op = "register" /\ last'.subject = s /\ last'.observer = d)
        /\ AssignedSubject(last') # None =>
             /\ \A d \in Observers \ observers[AssignedSubject(last')] :
                    /\ update_calls'[d] = 0
                    /\ observer_state'[d] = observer_state[d]
             /\ \A o \in observers[AssignedSubject(last')] :
                    observer_state'[o] = last'.arg
      ]_vars

\* C6 witness: after an assignment to H an observer that is in no registry and
\* has no _subject still holds an older value; no other subject was ever
\* assigned, so it got that value from H and was de-registered from H since.
C6_Witness ==
    /\ last.op = "subject_state"
    /\ \A s \in Subjects \ {last.subject} : subject_state[s] = None
    /\ \E d \in Observers :
          /\ observer_subject[d] = None
          /\ \A s \in Subjects : d \notin observers[s]
          /\ observer_state[d] \in Values \ {last.arg}
    /\ \E o \in observers[last.subject] : observer_state[o] = last.arg

\* C7: registering an observer that is already in the subject's registry
\* leaves the registry as it was (one membership) and still sets the
\* observer's _subject to that subject; and every assignment of a subject's
\* state calls update of each registered observer exactly once.
C7_RegisterIdempotent ==
    [][ /\ (last'.op = "register" /\ last'.observer \in observers[last'.subject]) =>
             /\ observers'[last'.subject] = observers[last'.subject]
             /\ observer_subject'[last'.observer] = last'.subject
        /\ AssignedSubject(last') # None =>
             \A o \in Observers :
                 update_calls'[o] = IF o \in observers[AssignedSubject(last')] THEN 1 ELSE 0
      ]_vars

\* C7 witness: an observer that had already received a value from the subject
\* has just been registered at it a second time.
C7_Witness ==
    /\ last.op = "register"
    /\ last.was_member
    /\ observer_state[last.observer] # None
    /\ observer_subject[last.observer] = last.subject

\* C8 (as claimed): every member of a subject's registry has its _subject
\* pointing at that subject.
C8_MembersPointBack ==
    \A s \in Subjects : \A o \in observers[s] : observer_subject[o] = s

\* C9 (as claimed): no observer is in the registries of two different subjects.
C9_AtMostOneSubject ==
    \A o \in Observers : \A s1, s2 \in Subjects :
        (o \in observers[s1] /\ o \in observers[s2]) => s1 = s2

\* C10: push(x) of an observer whose _subject is None raises, and changes no
\* subject's state, no registry, no observer's state and no back-reference.
C10_PushUnregisteredChangesNothing ==
    [][ (last'.op = "push" /\ observer_subject[last'.observer] = None) =>
            /\ last'.error
            /\ UNCHANGED <<subject_state, observers, observer_state, observer_subject>>
      ]_vars

\* C10 witness: an observer that was registered, received a value and was
\* de-registered has pushed and got the error, with another observer still
\* registered at a subject that has a state.
C10_Witness ==
    /\ last.op = "push"
    /\ last.error
    /\ observer_state[last.observer] \in Values \ {last.arg}
    /\ \E s \in Subjects : subject_state[s] # None /\ observers[s] # {}

\* C11: every value the client API of a ConcreteCreatorA returned is
\* "Concrete Product A", every one of a ConcreteCreatorB "Concrete Product B",
\* every value of common_function is "Product: common function", and the
\* product a creator holds is the one its class makes, however often it is called.
C11_ProductFixedByCreator ==
    \A c \in 1..Len(creators) :
        /\ creators[c].product =
               IF creators[c].cls = "ConcreteCreatorA" THEN "ConcreteProductA"
               ELSE "ConcreteProductB"
        /\ \A k \in 1..Len(creators[c].returned) :
               creators[c].returned[k] =
                   IF creators[c].cls = "ConcreteCreatorA" THEN "Concrete Product A"
                   ELSE "Concrete Product B"
        /\ \A k \in 1..Len(creators[c].common) :
               creators[c].common[k] = "Product: common function"

\* C11 witness: a ConcreteCreatorA and a ConcreteCreatorB have each been called
\* twice through the client API and once for common_function.
C11_Witness ==
    \E a, b \in 1..Len(creators) :
        /\ creators[a].cls = "ConcreteCreatorA"
        /\ creators[b].cls = "ConcreteCreatorB"
        /\ Len(creators[a].returned) >= 2 /\ Len(creators[b].returned) >= 2
        /\ Len(creators[a].common) >= 1 /\ Len(creators[b].common) >= 1

\* C12: every value client_interface_to_call_algo of a Context returned is the
\* string of the class of the strategy object the Context was constructed with.
C12_ContextDelegates ==
    \A x \in 1..Len(contexts) : \A k \in 1..Len(contexts[x].returned) :
        contexts[x].returned[k] =
            IF strategies[contexts[x].strategy] = "ConcreteStrategyA"
            THEN "Algorithm A is implemented"
            ELSE "Algorithm B is implemented"

\* C12 witness: two contexts, one built with a ConcreteStrategyA and one with a
\* ConcreteStrategyB, have each been called twice.
C12_Witness ==
    \E x, y \in 1..Len(contexts) :
        /\ strategies[contexts[x].strategy] = "ConcreteStrategyA"
        /\ strategies[contexts[y].strategy] = "ConcreteStrategyB"
        /\ Len(contexts[x].returned) >= 2
        /\ Len(contexts[y].returned) >= 2

\* The statements between acquire() and release(): lines 42 to 44.
CriticalSection == {"check2", "construct", "assign", "release"}

\* C13: the lock is held exactly by the thread that is between acquire and
\* release, at most one thread is there, the stored instance is written only
\* by the thread holding the lock, and a thread whose first check sees an
\* instance goes straight to the return without touching the lock.
C13_LockCoversCriticalSection ==
    [][ /\ \A t \in Threads : (singleton_lock' = t) <=> (pc'[t] \in CriticalSection)
        /\ Cardinality({t \in Threads : pc'[t] \in CriticalSection}) <= 1
        /\ app_instance' # app_instance =>
               \E t \in Threads :
                   singleton_lock = t /\ pc[t] = "assign" /\ pc'[t] = "release"
        /\ \A t \in Threads :
               /\ (pc[t] = "check1" /\ app_instance # None /\ pc'[t] # pc[t]) =>
                      (pc'[t] = "return" /\ singleton_lock' = singleton_lock)
               /\ (pc[t] = "return" /\ pc'[t] # pc[t]) =>
                      (pc'[t] = "idle" /\ singleton_lock' = singleton_lock)
      ]_vars

\* C13 witness: a thread is returning from its second call, which can only
\* have taken the fast path, while another thread holds the lock.
C13_Witness ==
    \E t, u \in Threads :
        /\ t # u
        /\ pc[t] = "return"
        /\ Len(results[t]) >= 1
        /\ singleton_lock = u

\* C14: the stored instance, and every instance returned, is an object whose
\* constructor has completed, and an object not yet stored is held only by the
\* thread that is about to store it.
C14_NoPartialInstance ==
    /\ app_instance # None => app_instance \in 1..constructed
    /\ \A t \in Threads :
          /\ \A i \in 1..Len(results[t]) : results[t][i] \in 1..constructed
          /\ fresh[t] # None => (pc[t] = "assign" /\ fresh[t] \in 1..constructed)

\* C14 witness: a thread is at its unlocked first check with the instance just
\* stored, the storing thread not having released the lock yet.
C14_Witness ==
    \E t, u \in Threads :
        /\ pc[t] = "check1"
        /\ pc[u] = "release"
        /\ app_instance # None
        /\ singleton_lock = u

\* C19: under fair scheduling every thread that has called get_cls_instance
\* eventually returns from it.
C19_EveryCallReturns ==
    \A t \in Threads : (pc[t] # "idle") ~> (pc[t] = "idle")

\* C19 witness: a thread is blocked in acquire() while another holds the lock.
C19_Witness ==
    \E t, u \in Threads :
        /\ t # u
        /\ pc[t] = "acquire"
        /\ singleton_lock = u
        /\ pc[u] = "check2"

\* The observers a loop has still to visit.
Pending(b) == {b.pending[i] : i \in 1..Len(b.pending)}

\* C15: when an update raises during the broadcast of subject_state = v, the
\* loop is left at once: the subject's state is v, the observers visited
\* before hold v, every observer not visited has the state it had before the
\* assignment and no call, the registries are as they were; and the next thing
\* that happens is that the client (of the assignment or of push) gets the
\* error, with nothing changed in between.
C15_FailedUpdateAbortsBroadcast ==
    [][ /\ (broadcast.failed = None /\ broadcast'.failed # None) =>
             LET b == broadcast'
             IN  /\ b.status = "raised"
                 /\ subject_state'[b.subject] = b.arg
                 /\ \A o \in b.done : observer_state'[o] = b.arg
                 /\ \A o \in Observers \ (b.done \cup {b.failed}) :
                        observer_state'[o] = b.before[o] /\ update_calls'[o] = 0
                 /\ observers' = observers
                 /\ observers'[b.subject] = b.done \cup {b.failed} \cup Pending(b)
                 /\ observer_subject' = observer_subject
        /\ broadcast.status = "raised" =>
             /\ broadcast'.status = "idle"
             /\ last'.error
             /\ last'.op = broadcast.op
             /\ last'.subject = broadcast.subject
             /\ last'.observer = broadcast.observer
             /\ UNCHANGED <<subject_state, observers, observer_state, observer_subject>>
      ]_vars

\* C15 witness: the update of the first observer visited has raised, and an
\* observer that was still to come holds the value of an earlier assignment.
C15_Witness ==
    /\ broadcast.status = "raised"
    /\ \E o \in Pending(broadcast) :
          /\ observer_state[o] \in Values \ {broadcast.arg}
          /\ update_calls[o] = 0

\* C16: while the updates of an assignment subject_state = v run, the subject's
\* state is already v, every observer visited so far was called once and holds
\* v, and none still to come has been called; and when the assignment has
\* returned, every registered observer has been called once and holds v.
C16_StoreThenNotify ==
    /\ broadcast.status # "idle" =>
          /\ subject_state[broadcast.subject] = broadcast.arg
          /\ \A o \in broadcast.done :
                 observer_state[o] = broadcast.arg /\ update_calls[o] = 1
          /\ \A o \in Pending(broadcast) : update_calls[o] = 0
          /\ broadcast.done \cup Pending(broadcast) \subseteq observers[broadcast.subject]
    /\ (broadcast.status = "idle" /\ AssignedSubject(last) # None /\ ~last.error) =>
          /\ subject_state[last.subject] = last.arg
          /\ \A o \in observers[last.subject] :
                 observer_state[o] = last.arg /\ update_calls[o] = 1

\* C16 witness: in the middle of a broadcast one observer has been updated
\* and another, still holding an earlier value, is about to be.
C16_Witness ==
    /\ broadcast.status = "notifying"
    /\ broadcast.done # {}
    /\ \E o \in Pending(broadcast) : observer_state[o] \in Values \ {broadcast.arg}

\* C17: de_register(d) raises nothing, leaves a registry that does not list d
\* as it is, and changes nothing but d's membership of that subject's registry
\* and d's _subject.
C17_DeRegisterFrame ==
    [][ last'.op = "de_register" =>
            LET s == last'.subject
                d == last'.observer
            IN  /\ ~last'.error
                /\ d \notin observers[s] => observers'[s] = observers[s]
                /\ observers'[s] = observers[s] \ {d}
                /\ \A s2 \in Subjects \ {s} : observers'[s2] = observers[s2]
                /\ observer_subject'[d] = None
                /\ \A o \in Observers \ {d} : observer_subject'[o] = observer_subject[o]
                /\ subject_state' = subject_state
                /\ observer_state' = observer_state
      ]_vars

\* C17 witness: de_register was called for an observer the subject did not
\* list, on a subject that has a state and lists another observer.
C17_Witness ==
    /\ last.op = "de_register"
    /\ ~last.was_member
    /\ ~last.error
    /\ subject_state[last.subject] # None
    /\ observers[last.subject] # {}

\* C18: register(d) at H2 binds d to H2 also when another subject lists d, only
\* register and de_register of d change that binding, and d.push(x) sets the
\* state of the subject d is bound to and of no other, and calls update of
\* exactly the observers that subject lists.
C18_PushGoesToLatestSubject ==
    [][ /\ last'.op = "register" => observer_subject'[last'.observer] = last'.subject
        /\ \A d \in Observers :
             observer_subject'[d] # observer_subject[d] =>
                 (last'.op \in {"register", "de_register"} /\ last'.observer = d)
        /\ (last'.op = "push" /\ observer_subject[last'.observer] # None) =>
             LET H2 == observer_subject[last'.observer]
             IN  /\ ~last'.error
                 /\ subject_state'[H2] = last'.arg
                 /\ \A s \in Subjects \ {H2} : subject_state'[s] = subject_state[s]
                 /\ \A o \in observers[H2] :
                        update_calls'[o] = 1 /\ observer_state'[o] = last'.arg
                 /\ \A o \in Observers \ observers[H2] :
                        update_calls'[o] = 0 /\ observer_state'[o] = observer_state[o]
      ]_vars

\* C18 witness: an observer still listed by H1 and bound to H2 has pushed: H1
\* and an observer listed by H1 alone keep the earlier value of H1.
C18_Witness ==
    /\ last.op = "push"
    /\ ~last.error
    /\ \E H1 \in Subjects \ {last.subject} :
          /\ last.observer \in observers[H1]
          /\ subject_state[H1] \in Values \ {last.arg}
          /\ \E o \in observers[H1] \ observers[last.subject] :
                 observer_state[o] = subject_state[H1]
====
